---- MODULE Spec2Model ----
\* A model of fima (src/main.rs): the purchase record, its one-line text
\* encoding, the append-or-create store, the interactive input loop and the
\* per-category report.
\*
\* Text is modelled as a sequence of one-character strings, so that trimming,
\* splitting on ", ", line breaking, number formatting and number parsing are
\* computed character by character as the code computes them.
EXTENDS Integers, Sequences, FiniteSets, TLC

VARIABLES
    fileExists,     \* whether purchase.txt exists on disk
    contents,       \* the bytes of purchase.txt (<<>> when absent or empty)
    file0,          \* history: the file before the first step (None: it did not exist)
    written,        \* history: the purchases write_to_file has stored, in call order
    pc,             \* the control position of the running function
    line,           \* cli_update: the String buffer filled by the last read_line
    name,           \* cli_update: local `name`     (None until read)
    price,          \* cli_update: local `price`    (None until accepted)
    product_type,   \* cli_update: local `product_type`
    quantity,       \* cli_update: local `quantity`
    date,           \* cli_update: local `date`
    purchase,       \* the Purchase built at lines 185-186 (None before)
    stdout,         \* the lines printed by the last step
    purchases,      \* exec_bucket_comparison: the Vec<Purchase> read_from_file returned
    buckets         \* exec_bucket_comparison: the Vec<Bucket> (sorted by compare_buckets)

vars == <<fileExists, contents, file0, written, pc, line, name, price, product_type,
          quantity, date, purchase, stdout, purchases, buckets>>

None == <<>>
Some(v) == <<v>>

-----------------------------------------------------------------------------
\* Text utilities (the std::str methods the program calls)

IsWhite(c) == c \in {" ", "\n", "\t", "\r"}

RECURSIVE TrimStart(_)
TrimStart(s) == IF s # <<>> /\ IsWhite(Head(s)) THEN TrimStart(Tail(s)) ELSE s

RECURSIVE TrimEnd(_)
TrimEnd(s) ==
    IF s # <<>> /\ IsWhite(s[Len(s)]) THEN TrimEnd(SubSeq(s, 1, Len(s) - 1)) ELSE s

\* str::trim
Trim(s) == TrimEnd(TrimStart(s))

Upper == <<"A","B","C","D","E","F","G","H","I","J","K","L","M",
           "N","O","P","Q","R","S","T","U","V","W","X","Y","Z">>
Lower == <<"a","b","c","d","e","f","g","h","i","j","k","l","m",
           "n","o","p","q","r","s","t","u","v","w","x","y","z">>

LowerChar(c) ==
    IF \E i \in 1..Len(Upper) : Upper[i] = c
    THEN Lower[CHOOSE i \in 1..Len(Upper) : Upper[i] = c]
    ELSE c

\* str::to_lowercase
ToLowercase(s) == [i \in 1..Len(s) |-> LowerChar(s[i])]

\* The first index at which pat occurs in s, or 0
Find(s, pat) ==
    LET hits == {i \in 1..(Len(s) - Len(pat) + 1) : SubSeq(s, i, i + Len(pat) - 1) = pat}
    IN  IF hits = {} THEN 0 ELSE CHOOSE i \in hits : \A j \in hits : i <= j

\* str::split(pat): the pieces between the non-overlapping matches of pat,
\* left to right; always at least one piece
RECURSIVE Split(_, _)
Split(s, pat) ==
    LET i == Find(s, pat)
    IN  IF i = 0 THEN <<s>>
        ELSE <<SubSeq(s, 1, i - 1)>> \o Split(SubSeq(s, i + Len(pat), Len(s)), pat)

\* str::lines: split after every "\n"; a line loses its "\n" and then a "\r"
\* before it; no line follows a final "\n"; the empty text has no line
StripCR(s) == IF s # <<>> /\ s[Len(s)] = "\r" THEN SubSeq(s, 1, Len(s) - 1) ELSE s

RECURSIVE Lines(_)
Lines(s) ==
    LET i == Find(s, <<"\n">>)
    IN  IF s = <<>> THEN <<>>
        ELSE IF i = 0 THEN <<s>>
        ELSE <<StripCR(SubSeq(s, 1, i - 1))>> \o Lines(SubSeq(s, i + 1, Len(s)))

-----------------------------------------------------------------------------
\* Decimal digits

DigitChars == <<"0","1","2","3","4","5","6","7","8","9">>
IsDigit(c) == \E i \in 1..Len(DigitChars) : DigitChars[i] = c
DigitVal(c) == (CHOOSE i \in 1..Len(DigitChars) : DigitChars[i] = c) - 1
AllDigits(s) == \A i \in 1..Len(s) : IsDigit(s[i])
AllZeros(s) == \A i \in 1..Len(s) : s[i] = "0"

RECURSIVE NatToText(_)
NatToText(n) ==
    IF n < Len(DigitChars) THEN <<DigitChars[n + 1]>>
    ELSE NatToText(n \div Len(DigitChars)) \o <<DigitChars[(n % Len(DigitChars)) + 1]>>

RECURSIVE TextToNat(_)
TextToNat(s) ==
    IF s = <<>> THEN 0
    ELSE TextToNat(SubSeq(s, 1, Len(s) - 1)) * Len(DigitChars) + DigitVal(s[Len(s)])

RECURSIVE StripZeros(_)
StripZeros(s) == IF Len(s) > 1 /\ Head(s) = "0" THEN StripZeros(Tail(s)) ELSE s

\* a <= b for digit texts of equal length
RECURSIVE DigitsLeq(_, _)
DigitsLeq(a, b) ==
    IF a = <<>> THEN TRUE
    ELSE IF DigitVal(Head(a)) # DigitVal(Head(b)) THEN DigitVal(Head(a)) < DigitVal(Head(b))
    ELSE DigitsLeq(Tail(a), Tail(b))

-----------------------------------------------------------------------------
\* f32.  The modelled values are NaN and the multiples of 0.5 of small
\* magnitude, held as a count of halves: they are exact in binary32, so the
\* products and sums below are exact too.

NaN == [nan |-> TRUE, halves |-> 0]
F32(h) == [nan |-> FALSE, halves |-> h]

\* <f32 as Display>::fmt: the shortest decimal that reads back as the value;
\* a whole number prints without a fraction (12.0 prints as 12)
FmtF32(v) ==
    IF v.nan THEN <<"N","a","N">>
    ELSE LET mag == IF v.halves < 0 THEN 0 - v.halves ELSE v.halves
         IN  (IF v.halves < 0 THEN <<"-">> ELSE <<>>)
             \o NatToText(mag \div 2)
             \o (IF mag % 2 = 1 THEN <<".", "5">> ELSE <<>>)

\* <f32 as FromStr>::from_str: an optional sign, then "nan" in any case, or
\* digits with an optional "." and fraction, at least one digit in all.
\* (Exponents, infinities and fractions that are no multiple of 0.5 are outside
\* the modelled values; no input text of the model uses them.)
ParseF32(s) ==
    LET signed == s # <<>> /\ s[1] \in {"+", "-"}
        sign   == IF s # <<>> /\ s[1] = "-" THEN 0 - 1 ELSE 1
        body   == IF signed THEN Tail(s) ELSE s
        dot    == Find(body, <<".">>)
        ip     == IF dot = 0 THEN body ELSE SubSeq(body, 1, dot - 1)
        fp     == IF dot = 0 THEN <<>> ELSE SubSeq(body, dot + 1, Len(body))
    IN  IF ToLowercase(body) = <<"n","a","n">> THEN Some(NaN)
        ELSE IF ~AllDigits(ip) \/ ~AllDigits(fp) \/ (ip = <<>> /\ fp = <<>>) THEN None
        ELSE IF AllZeros(fp) THEN Some(F32(sign * 2 * TextToNat(ip)))
        ELSE IF fp[1] = "5" /\ AllZeros(Tail(fp)) THEN Some(F32(sign * (2 * TextToNat(ip) + 1)))
        ELSE None

\* f32 + f32
AddF32(a, b) == IF a.nan \/ b.nan THEN NaN ELSE F32(a.halves + b.halves)

\* f32::partial_cmp: None when either side is NaN
PartialCmp(a, b) ==
    IF a.nan \/ b.nan THEN None
    ELSE IF a.halves < b.halves THEN Some("Less")
    ELSE IF a.halves > b.halves THEN Some("Greater")
    ELSE Some("Equal")

-----------------------------------------------------------------------------
\* u32

\* u32::MAX = 4294967295 as text
U32MaxText == <<"4","2","9","4","9","6","7","2","9","5">>

\* <u32 as FromStr>::from_str: an optional "+", then one or more digits whose
\* value fits 32 bits
ParseU32(s) ==
    LET body == IF s # <<>> /\ s[1] = "+" THEN Tail(s) ELSE s
        sig  == StripZeros(body)
    IN  IF body = <<>> \/ ~AllDigits(body) THEN None
        ELSE IF Len(sig) > Len(U32MaxText) THEN None
        ELSE IF Len(sig) = Len(U32MaxText) /\ ~DigitsLeq(sig, U32MaxText) THEN None
        ELSE Some(TextToNat(sig))

-----------------------------------------------------------------------------
\* chrono::NaiveDate, held as [y, m, d]

IsLeap(y) == y % 4 = 0 /\ (y % 100 # 0 \/ y % 400 = 0)

DaysInMonth(y, m) ==
    IF m = 2 THEN (IF IsLeap(y) THEN 29 ELSE 28)
    ELSE IF m \in {4, 6, 9, 11} THEN 30 ELSE 31

ValidDate(y, m, d) == m \in 1..12 /\ d \in 1..DaysInMonth(y, m)

\* n in at least w digits, zero padded
Pad(n, w) ==
    LET t == NatToText(n)
    IN  [i \in 1..(IF Len(t) < w THEN w - Len(t) ELSE 0) |-> "0"] \o t

\* <NaiveDate as Display>::fmt: %Y-%m-%d
FmtDate(dt) == Pad(dt.y, 4) \o <<"-">> \o Pad(dt.m, 2) \o <<"-">> \o Pad(dt.d, 2)

\* How many of the first `most` characters of s are digits, counted from the left
LeadDigits(s, most) ==
    LET ks == {k \in 0..(IF Len(s) < most THEN Len(s) ELSE most) : AllDigits(SubSeq(s, 1, k))}
    IN  CHOOSE k \in ks : \A j \in ks : j <= k

\* The chrono scanner for year "-" month "-" day: 1 to 4 year digits, 1 to 2
\* month digits and 1 to 2 day digits; whatever follows the day must be empty,
\* or white space where the item list ends with a Space item.
\* (Signed years and white space before a number are not in the model's inputs.)
ScanDate(s, trailingSpace) ==
    LET parts == Split(s, <<"-">>)
        yt    == parts[1]
        mt    == parts[2]
        k     == LeadDigits(parts[3], 2)
        dtxt  == SubSeq(parts[3], 1, k)
        rest  == SubSeq(parts[3], k + 1, Len(parts[3]))
    IN  IF Len(parts) # 3 THEN None
        ELSE IF yt = <<>> \/ Len(yt) > 4 \/ ~AllDigits(yt) THEN None
        ELSE IF mt = <<>> \/ Len(mt) > 2 \/ ~AllDigits(mt) THEN None
        ELSE IF k = 0 THEN None
        ELSE IF rest # <<>> /\ ~(trailingSpace /\ TrimStart(rest) = <<>>) THEN None
        ELSE IF ~ValidDate(TextToNat(yt), TextToNat(mt), TextToNat(dtxt)) THEN None
        ELSE Some([y |-> TextToNat(yt), m |-> TextToNat(mt), d |-> TextToNat(dtxt)])

\* NaiveDate::parse_from_str(s, "%Y-%m-%d"): the whole text must be consumed
ParseDateFmt(s) == ScanDate(s, FALSE)

\* <NaiveDate as FromStr>::from_str
ParseDateFromStr(s) == ScanDate(s, TRUE)

-----------------------------------------------------------------------------
\* ProductType

ProductTypes ==
    <<"Food", "Culture", "Technology", "Education", "Travel", "Presents", "Style", "Other">>

TypeTexts ==
    << <<"f","o","o","d">>,
       <<"c","u","l","t","u","r","e">>,
       <<"t","e","c","h","n","o","l","o","g","y">>,
       <<"e","d","u","c","a","t","i","o","n">>,
       <<"t","r","a","v","e","l">>,
       <<"p","r","e","s","e","n","t","s">>,
       <<"s","t","y","l","e">>,
       <<"o","t","h","e","r">> >>

\* Fault: from_string without its "style" arm
from_string_no_style(text) ==
    IF \E k \in 1..(Len(ProductTypes) - 1) : TypeTexts[k] = text /\ ProductTypes[k] # "Style"
    THEN ProductTypes[CHOOSE k \in 1..(Len(ProductTypes) - 1) : TypeTexts[k] = text]
    ELSE "Other"

\* ProductType::from_string
from_string(text) ==
    IF \E k \in 1..(Len(ProductTypes) - 1) : TypeTexts[k] = text
    THEN ProductTypes[CHOOSE k \in 1..(Len(ProductTypes) - 1) : TypeTexts[k] = text]
    ELSE "Other"

\* ProductType::to_string
to_string(t) == TypeTexts[CHOOSE k \in 1..Len(ProductTypes) : ProductTypes[k] = t]

-----------------------------------------------------------------------------
\* Product and Purchase

\* Product::new
NewProduct(n, p, t) == [name |-> ToLowercase(Trim(n)), price |-> p, product_type |-> t]

\* Purchase::new
NewPurchase(prod, q, dt) == [product |-> prod, quantity |-> q, date |-> dt]

\* Purchase::value
Value(p) ==
    IF p.product.price.nan THEN NaN ELSE F32(p.product.price.halves * p.quantity)

-----------------------------------------------------------------------------
\* The line format

Sep == <<",", " ">>

\* the format!("{}, {}, {}, {}, {}", ...) of write_to_file
EncodePurchase(p) ==
    p.product.name \o Sep \o FmtF32(p.product.price) \o Sep
    \o to_string(p.product.product_type) \o Sep
    \o NatToText(p.quantity) \o Sep \o FmtDate(p.date)

\* The body of read_from_file's loop for one line: "skip" when the line has
\* fewer than 5 fields, "panic" when an expect() fails, else the Purchase.
\* The name is taken as it stands in the file.
DecodeLine(l) ==
    LET fields == Split(l, Sep)
        pr     == ParseF32(fields[2])
        qt     == ParseU32(fields[4])
        dt     == ParseDateFromStr(fields[5])
    IN  IF Len(fields) < 5 THEN [kind |-> "skip"]
        ELSE IF pr = None \/ qt = None \/ dt = None THEN [kind |-> "panic"]
        ELSE [kind |-> "ok",
              purchase |-> [product  |-> [name |-> fields[1], price |-> pr[1],
                                          product_type |-> from_string(fields[3])],
                            quantity |-> qt[1],
                            date     |-> dt[1]]]

\* Fault: a line that does not parse is passed over instead of panicking
RECURSIVE DecodeAll_skip_corrupt(_, _)
DecodeAll_skip_corrupt(ls, acc) ==
    IF ls = <<>> THEN [panic |-> FALSE, purchases |-> acc]
    ELSE LET r == DecodeLine(Head(ls))
         IN  IF r.kind = "ok" THEN DecodeAll_skip_corrupt(Tail(ls), Append(acc, r.purchase))
             ELSE DecodeAll_skip_corrupt(Tail(ls), acc)

\* Fault: a line with too few fields ends the loop
RECURSIVE DecodeAll_stop_at_short(_, _)
DecodeAll_stop_at_short(ls, acc) ==
    IF ls = <<>> THEN [panic |-> FALSE, purchases |-> acc]
    ELSE LET r == DecodeLine(Head(ls))
         IN  IF r.kind = "panic" THEN [panic |-> TRUE, purchases |-> <<>>]
             ELSE IF r.kind = "skip" THEN [panic |-> FALSE, purchases |-> acc]
             ELSE DecodeAll_stop_at_short(Tail(ls), Append(acc, r.purchase))

RECURSIVE DecodeAll(_, _)
DecodeAll(ls, acc) ==
    IF ls = <<>> THEN [panic |-> FALSE, purchases |-> acc]
    ELSE LET r == DecodeLine(Head(ls))
         IN  IF r.kind = "panic" THEN [panic |-> TRUE, purchases |-> <<>>]
             ELSE IF r.kind = "skip" THEN DecodeAll(Tail(ls), acc)
             ELSE DecodeAll(Tail(ls), Append(acc, r.purchase))

\* read_from_file: panics when the file cannot be opened or a 5-field line
\* does not parse; a panic returns nothing
read_from_file(exists, data) ==
    IF ~exists THEN [panic |-> TRUE, purchases |-> <<>>]
    ELSE DecodeAll(Lines(data), <<>>)

\* Fault: every record is written with a line end after it
write_to_file_line_end(exists, data, p) ==
    IF exists /\ data = <<>>
    THEN [panic |-> TRUE, exists |-> TRUE, contents |-> data]
    ELSE [panic |-> FALSE, exists |-> TRUE, contents |-> data \o EncodePurchase(p) \o <<"\n">>]

\* write_to_file.  File::open gives a read-only handle to an existing file;
\* only when that fails does File::create give a write-only handle to a new,
\* empty file.  write_all on the read-only handle fails and unwrap() panics.
write_to_file(exists, data, p) ==
    LET handle == IF exists THEN "read" ELSE "write"
        len    == IF exists THEN Len(data) ELSE 0
    IN  IF len = 0
        THEN IF handle = "write"
             THEN [panic |-> FALSE, exists |-> TRUE, contents |-> EncodePurchase(p)]
             ELSE [panic |-> TRUE, exists |-> TRUE, contents |-> data]
        ELSE [panic |-> FALSE, exists |-> TRUE,
              contents |-> data \o <<"\n">> \o EncodePurchase(p)]

-----------------------------------------------------------------------------
\* Buckets.  A Bucket borrows its purchases: `purchases` holds indices into
\* the loaded Vec<Purchase>.

RECURSIVE PushMatching(_, _, _, _)
PushMatching(ps, t, i, acc) ==
    IF i > Len(ps) THEN acc
    ELSE PushMatching(ps, t, i + 1,
                      IF ps[i].product.product_type = t THEN Append(acc, i) ELSE acc)

\* Fault: the Style arm pushes to other_bucket
sort_type_buckets_style_to_other(ps) ==
    [k \in 1..Len(ProductTypes) |->
        [product_type |-> ProductTypes[k],
         purchases    |->
            IF ProductTypes[k] = "Style" THEN <<>>
            ELSE IF ProductTypes[k] = "Other"
                 THEN PushMatching(ps, "Other", 1, <<>>) \o PushMatching(ps, "Style", 1, <<>>)
                 ELSE PushMatching(ps, ProductTypes[k], 1, <<>>)]]

\* sort_type_buckets: one bucket per type in declaration order
sort_type_buckets(ps) ==
    [k \in 1..Len(ProductTypes) |->
        [product_type |-> ProductTypes[k],
         purchases    |-> PushMatching(ps, ProductTypes[k], 1, <<>>)]]

RECURSIVE FoldValue(_, _, _)
FoldValue(refs, ps, acc) ==
    IF refs = <<>> THEN acc
    ELSE FoldValue(Tail(refs), ps, AddF32(acc, Value(ps[Head(refs)])))

\* eval_bucket_value
eval_bucket_value(b, ps) == FoldValue(b.purchases, ps, F32(0))

\* Fault: the closure compares a with b, which sorts ascending
CompareClosure_ascending(a, b, ps) ==
    PartialCmp(eval_bucket_value(a, ps), eval_bucket_value(b, ps))

\* the closure given to sort_by: value(b).partial_cmp(value(a))
CompareClosure(a, b, ps) == PartialCmp(eval_bucket_value(b, ps), eval_bucket_value(a, ps))

\* slice::sort_by on a short slice: a stable insertion sort; x moves left past
\* every element it compares Less than
RECURSIVE InsertTail(_, _, _)
InsertTail(s, x, ps) ==
    IF s = <<>> THEN <<x>>
    ELSE IF CompareClosure(x, s[Len(s)], ps) = Some("Less")
         THEN InsertTail(SubSeq(s, 1, Len(s) - 1), x, ps) \o <<s[Len(s)]>>
         ELSE s \o <<x>>

RECURSIVE sort_by(_, _)
sort_by(bs, ps) ==
    IF bs = <<>> THEN <<>>
    ELSE InsertTail(sort_by(SubSeq(bs, 1, Len(bs) - 1), ps), bs[Len(bs)], ps)

\* compare_buckets: every bucket takes part in a comparison, so unwrap()
\* panics as soon as one bucket's value is NaN; else the buckets are sorted
\* and printed one per line
compare_buckets(bs, ps) ==
    IF \E k \in 1..Len(bs) : eval_bucket_value(bs[k], ps).nan
    THEN [panic |-> TRUE, buckets |-> bs, out |-> <<>>]
    ELSE LET sorted == sort_by(bs, ps)
         IN  [panic |-> FALSE, buckets |-> sorted,
              out |-> [k \in 1..Len(sorted) |->
                         to_string(sorted[k].product_type) \o <<":", " ">>
                         \o FmtF32(eval_bucket_value(sorted[k], ps))]]

-----------------------------------------------------------------------------
\* Bounds and input texts

MaxWrites == 2          \* Store: calls of write_to_file in one behaviour
MaxPurchases == 1       \* cli_update: purchases persisted in one session
MaxLines == 3           \* Report: lines of the stored file

T_date1 == <<"2","0","2","4","-","0","1","-","1","5">>
T_date2 == <<"2","0","2","4","-","0","2","-","2","9">>
T_date3 == <<"0","9","9","9","-","1","2","-","3","1">>
T_baddate == <<"2","0","2","4","-","0","2","-","3","0">>

Date1 == [y |-> 2024, m |-> 1, d |-> 15]
Date2 == [y |-> 2024, m |-> 2, d |-> 29]
Date3 == [y |-> 999, m |-> 12, d |-> 31]

\* A stored line from its five (or fewer, or more) field texts
RECURSIVE JoinWith(_, _)
JoinWith(parts, sep) ==
    IF parts = <<>> THEN <<>>
    ELSE IF Len(parts) = 1 THEN parts[1]
    ELSE parts[1] \o sep \o JoinWith(Tail(parts), sep)

-----------------------------------------------------------------------------
\* Store: a caller that calls write_to_file up to MaxWrites times

StoreNames == { <<"c","o","f">>, <<" ","B","k","\n">> }
StorePurchases ==
    { NewPurchase(NewProduct(n, p, t), q, Date1) :
        n \in StoreNames, p \in {F32(7), F32(24)}, t \in {"Food", "Other"}, q \in {1, 20} }

StoreFiles == { None, Some(<<>>), Some(<<"o","l","d",","," ","1">>) }

StoreInit ==
    /\ file0 \in StoreFiles
    /\ fileExists = (file0 # None)
    /\ contents = (IF file0 = None THEN <<>> ELSE file0[1])
    /\ written = <<>>
    /\ pc = "run"
    /\ line = None /\ name = None /\ price = None /\ product_type = None
    /\ quantity = None /\ date = None /\ purchase = None
    /\ stdout = <<>> /\ purchases = <<>> /\ buckets = <<>>

StoreWrite ==
    /\ pc = "run"
    /\ Len(written) < MaxWrites
    /\ \E p \in StorePurchases :
        LET r == write_to_file(fileExists, contents, p)
        IN  /\ purchase' = Some(p)
            /\ fileExists' = r.exists
            /\ contents' = r.contents
            /\ written' = IF r.panic THEN written ELSE Append(written, p)
            /\ pc' = IF r.panic THEN "panic" ELSE "run"
    /\ UNCHANGED <<file0, line, name, price, product_type, quantity, date,
                   stdout, purchases, buckets>>

StoreNext == StoreWrite

SpecStore == StoreInit /\ [][StoreNext]_vars

-----------------------------------------------------------------------------
\* Codec: one purchase written to a fresh file and read back

CodecNames ==
    { <<>>, <<"a">>, <<" ","A"," ","b"," ">>, <<"a",",">>, <<"a",","," ","b">>,
      <<"a"," ",","," ","1",","," ","f","o","o","d",","," ","1",","," ">> \o T_date1 }

CodecPurchases ==
    { NewPurchase(NewProduct(n, p, ProductTypes[k]), q, dt) :
        n \in CodecNames, p \in {F32(0), F32(7), F32(24), F32(0 - 3), NaN},
        k \in 1..Len(ProductTypes), q \in {0, 2, 65536}, dt \in {Date1, Date2, Date3} }

CodecInit ==
    /\ file0 = None
    /\ fileExists = FALSE
    /\ contents = <<>>
    /\ written = <<>>
    /\ pc = "encode"
    /\ purchase \in { Some(p) : p \in CodecPurchases }
    /\ line = None /\ name = None /\ price = None /\ product_type = None
    /\ quantity = None /\ date = None
    /\ stdout = <<>> /\ purchases = <<>> /\ buckets = <<>>

CodecWrite ==
    /\ pc = "encode"
    /\ LET r == write_to_file(fileExists, contents, purchase[1])
       IN  /\ fileExists' = r.exists
           /\ contents' = r.contents
           /\ written' = IF r.panic THEN written ELSE Append(written, purchase[1])
           /\ pc' = IF r.panic THEN "panic" ELSE "decode"
    /\ UNCHANGED <<file0, line, name, price, product_type, quantity, date, purchase,
                   stdout, purchases, buckets>>

CodecRead ==
    /\ pc = "decode"
    /\ LET r == read_from_file(fileExists, contents)
       IN  /\ purchases' = r.purchases
           /\ pc' = IF r.panic THEN "panic_read" ELSE "done"
    /\ UNCHANGED <<fileExists, contents, file0, written, line, name, price,
                   product_type, quantity, date, purchase, stdout, buckets>>

CodecNext == CodecWrite \/ CodecRead

SpecCodec == CodecInit /\ [][CodecNext]_vars

-----------------------------------------------------------------------------
\* cli_update: the interactive loop.  Each action is one read_line with what
\* the code does up to the next read_line.  read_line returns the text typed
\* with its "\n", or without it when the input ends (end of file) after the text.

StdinLines(texts) == texts \cup { t \o <<"\n">> : t \in texts }

NameInputs == { <<"a">>, <<" ","A","b">> }
PriceInputs == { <<"3",".","5">>, <<" ","1">>, <<"x">>, <<>> }
TypeInputs == { TypeTexts[1], <<"F","o","o","d">>, TypeTexts[7] }
QuantityInputs == { <<"2">>, <<"0">>, <<"-","1">>, <<"2",".","5">> }
DateInputs == { T_date1, T_baddate, <<"x">> }
AnswerInputs == { <<"y">>, <<"n">>, <<>> }

\* Fault: a price that does not parse is taken as 0 and the loop ends
price_loop_default(buf) ==
    LET r == ParseF32(Trim(buf))
    IN  [pc |-> "type", value |-> IF r # None THEN r ELSE Some(F32(0)),
         out |-> <<"Enter product type:">>]

\* lines 142-153: the price loop body for one line read
price_loop(buf) ==
    LET r == ParseF32(Trim(buf))
    IN  IF r # None
        THEN [pc |-> "type", value |-> r, out |-> <<"Enter product type:">>]
        ELSE [pc |-> "price", value |-> None,
              out |-> <<"Price must be a float", "Enter price:">>]

\* lines 160-171: the quantity loop body for one line read
quantity_loop(buf) ==
    LET r == ParseU32(Trim(buf))
    IN  IF r # None
        THEN [pc |-> "date", value |-> r, out |-> <<"Enter date (yyyy-mm-dd):">>]
        ELSE [pc |-> "quantity", value |-> None,
              out |-> <<"Quantity must be an integer", "Enter quantity:">>]

\* lines 173-184: the date loop body for one line read; the buffer is parsed
\* as read, line ending included
date_loop(buf) ==
    LET r == ParseDateFmt(buf)
    IN  IF r # None
        THEN [pc |-> "write", value |-> r, out |-> <<>>]
        ELSE [pc |-> "date", value |-> None,
              out |-> <<"Date must be in the format yyyy-mm-dd", "Enter date (yyyy-mm-dd):">>]

CliInit ==
    /\ file0 \in { None, Some(<<>>) }
    /\ fileExists = (file0 # None)
    /\ contents = <<>>
    /\ written = <<>>
    /\ pc = "name"
    /\ line = None /\ name = None /\ price = None /\ product_type = None
    /\ quantity = None /\ date = None /\ purchase = None
    /\ stdout = <<"Add a purchase", "Enter product name:">>
    /\ purchases = <<>> /\ buckets = <<>>

\* lines 137-140, then the first prompt of the price loop
ReadName ==
    /\ pc = "name"
    /\ \E buf \in StdinLines(NameInputs) :
        /\ line' = buf
        /\ name' = Some(ToLowercase(Trim(buf)))
    /\ pc' = "price"
    /\ stdout' = <<"Enter price:">>
    /\ UNCHANGED <<fileExists, contents, file0, written, price, product_type,
                   quantity, date, purchase, purchases, buckets>>

ReadPrice ==
    /\ pc = "price"
    /\ \E buf \in StdinLines(PriceInputs) :
        LET r == price_loop(buf)
        IN  /\ line' = buf
            /\ price' = IF r.value # None THEN r.value ELSE price
            /\ pc' = r.pc
            /\ stdout' = r.out
    /\ UNCHANGED <<fileExists, contents, file0, written, name, product_type,
                   quantity, date, purchase, purchases, buckets>>

\* lines 155-158, then the first prompt of the quantity loop
ReadType ==
    /\ pc = "type"
    /\ \E buf \in StdinLines(TypeInputs) :
        /\ line' = buf
        /\ product_type' = Some(from_string(Trim(buf)))
    /\ pc' = "quantity"
    /\ stdout' = <<"Enter quantity:">>
    /\ UNCHANGED <<fileExists, contents, file0, written, name, price,
                   quantity, date, purchase, purchases, buckets>>

ReadQuantity ==
    /\ pc = "quantity"
    /\ \E buf \in StdinLines(QuantityInputs) :
        LET r == quantity_loop(buf)
        IN  /\ line' = buf
            /\ quantity' = IF r.value # None THEN r.value ELSE quantity
            /\ pc' = r.pc
            /\ stdout' = r.out
    /\ UNCHANGED <<fileExists, contents, file0, written, name, price, product_type,
                   date, purchase, purchases, buckets>>

ReadDate ==
    /\ pc = "date"
    /\ \E buf \in StdinLines(DateInputs) :
        LET r == date_loop(buf)
        IN  /\ line' = buf
            /\ date' = IF r.value # None THEN r.value ELSE date
            /\ pc' = r.pc
            /\ stdout' = r.out
    /\ UNCHANGED <<fileExists, contents, file0, written, name, price, product_type,
                   quantity, purchase, purchases, buckets>>

\* lines 185-189: build the purchase, store it, confirm, ask for more
Persist ==
    /\ pc = "write"
    /\ Len(written) < MaxPurchases
    /\ LET p == NewPurchase(NewProduct(name[1], price[1], product_type[1]),
                            quantity[1], date[1])
           r == write_to_file(fileExists, contents, p)
       IN  /\ purchase' = Some(p)
           /\ fileExists' = r.exists
           /\ contents' = r.contents
           /\ written' = IF r.panic THEN written ELSE Append(written, p)
           /\ pc' = IF r.panic THEN "panic" ELSE "another"
           /\ stdout' = IF r.panic THEN <<>>
                        ELSE <<"Purchase added", "Add another purchase? (y/n)">>
    /\ UNCHANGED <<file0, line, name, price, product_type, quantity, date,
                   purchases, buckets>>

\* lines 190-194, and on "y" the top of the next iteration (lines 135-137);
\* the locals of the finished iteration are dropped
ReadAnswer ==
    /\ pc = "another"
    /\ \E buf \in StdinLines(AnswerInputs) :
        /\ line' = buf
        /\ IF Trim(buf) # <<"y">>
           THEN /\ pc' = "done"
                /\ stdout' = <<>>
                /\ UNCHANGED <<name, price, product_type, quantity, date, purchase>>
           ELSE /\ pc' = "name"
                /\ stdout' = <<"Add a purchase", "Enter product name:">>
                /\ name' = None /\ price' = None /\ product_type' = None
                /\ quantity' = None /\ date' = None /\ purchase' = None
    /\ UNCHANGED <<fileExists, contents, file0, written, purchases, buckets>>

CliNext ==
    \/ ReadName \/ ReadPrice \/ ReadType \/ ReadQuantity \/ ReadDate
    \/ Persist \/ ReadAnswer

SpecCli == CliInit /\ [][CliNext]_vars

-----------------------------------------------------------------------------
\* exec_bucket_comparison on a stored file of up to MaxLines lines

ReportLines ==
    { JoinWith(<< <<"a">>, <<"1">>, TypeTexts[1], <<"1">>, T_date1 >>, Sep),
      JoinWith(<< <<"b">>, <<"0",".","5">>, TypeTexts[2], <<"2">>, T_date1 >>, Sep),
      JoinWith(<< <<"c">>, <<"1">>, <<"x","y","z">>, <<"3">>, T_date2 >>, Sep),
      JoinWith(<< <<"d">>, <<"-","1">>, TypeTexts[7], <<"1">>, T_date1 >>, Sep),
      JoinWith(<< <<"e">>, <<"N","a","N">>, TypeTexts[5], <<"1">>, T_date1 >>, Sep),
      JoinWith(<< <<" ","C","o","f">>, <<"2">>, TypeTexts[1], <<"1">>, T_date1,
                  <<"m","o","r","e">> >>, Sep),
      JoinWith(<< <<"x">>, <<"1">>, TypeTexts[1] >>, Sep),
      <<>>,
      JoinWith(<< <<"x">>, <<"n","o">>, TypeTexts[1], <<"1">>, T_date1 >>, Sep),
      JoinWith(<< <<"x">>, <<"1">>, TypeTexts[1], <<"-","1">>, T_date1 >>, Sep),
      JoinWith(<< <<"x">>, <<"1">>, TypeTexts[1], <<"1">>, T_baddate >>, Sep) }

ReportFiles ==
    { JoinWith(ls, <<"\n">>) :
        ls \in UNION { [1..n -> ReportLines] : n \in 0..MaxLines } }

ReportInit ==
    /\ file0 \in { None } \cup { Some(f) : f \in ReportFiles }
    /\ fileExists = (file0 # None)
    /\ contents = (IF file0 = None THEN <<>> ELSE file0[1])
    /\ written = <<>>
    /\ pc = "read"
    /\ line = None /\ name = None /\ price = None /\ product_type = None
    /\ quantity = None /\ date = None /\ purchase = None
    /\ stdout = <<>> /\ purchases = <<>> /\ buckets = <<>>

\* line 317
Load ==
    /\ pc = "read"
    /\ LET r == read_from_file(fileExists, contents)
       IN  /\ purchases' = r.purchases
           /\ pc' = IF r.panic THEN "panic_read" ELSE "loaded"
    /\ UNCHANGED <<fileExists, contents, file0, written, line, name, price,
                   product_type, quantity, date, purchase, stdout, buckets>>

\* line 318
Bucketize ==
    /\ pc = "loaded"
    /\ buckets' = sort_type_buckets(purchases)
    /\ pc' = "bucketed"
    /\ UNCHANGED <<fileExists, contents, file0, written, line, name, price,
                   product_type, quantity, date, purchase, stdout, purchases>>

\* line 319
Compare ==
    /\ pc = "bucketed"
    /\ LET r == compare_buckets(buckets, purchases)
       IN  /\ buckets' = r.buckets
           /\ stdout' = r.out
           /\ pc' = IF r.panic THEN "panic_sort" ELSE "reported"
    /\ UNCHANGED <<fileExists, contents, file0, written, line, name, price,
                   product_type, quantity, date, purchase, purchases>>

ReportNext == Load \/ Bucketize \/ Compare

SpecReport == ReportInit /\ [][ReportNext]_vars

-----------------------------------------------------------------------------
\* Properties

EncodedLines(ps) == [i \in 1..Len(ps) |-> EncodePurchase(ps[i])]

\* C1: starting from a path that does not exist, after the k-th write_to_file
\* call (k >= 1) the file holds exactly the encoded lines of purchases 1..k in
\* call order, joined by single "\n", with no "\n" first or last; so each
\* call keeps the previous contents as a prefix.  No call fails.
C1_WriteSequence ==
    file0 = None =>
        /\ pc # "panic"
        /\ written # <<>> =>
            /\ fileExists
            /\ contents = JoinWith(EncodedLines(written), <<"\n">>)
            /\ Len(Lines(contents)) = Len(written)
            /\ contents[1] # "\n"
            /\ contents[Len(contents)] # "\n"

C1_Witness == file0 = None /\ Len(written) >= 2 /\ written[1] # written[2]

\* C8: write_to_file on a path that exists with length 0 completes without a
\* fatal error and leaves exactly the one encoded line in the file.
C8_EmptyFileWrite ==
    (file0 = Some(<<>>) /\ purchase # None) =>
        /\ pc # "panic"
        /\ Len(written) = 1 => contents = EncodePurchase(written[1])

\* C2: a purchase whose name holds no ", ", written to a fresh file and read
\* back, is returned equal field by field, for each of the 8 product types.
C2_RoundTrip ==
    (pc \in {"done", "panic_read"} /\ Find(purchase[1].product.name, Sep) = 0) =>
        /\ pc = "done"
        /\ purchases = <<purchase[1]>>

C2_Witness ==
    /\ pc = "done"
    /\ purchases = <<purchase[1]>>
    /\ purchase[1].product.product_type = "Style"
    /\ purchase[1].product.price = F32(7)
    /\ purchase[1].product.name = <<"a", ",">>

FieldsOf(l) == Split(l, Sep)

CorruptLine(l) ==
    /\ Len(FieldsOf(l)) >= 5
    /\ \/ ParseF32(FieldsOf(l)[2]) = None
       \/ ParseU32(FieldsOf(l)[4]) = None
       \/ ParseDateFromStr(FieldsOf(l)[5]) = None

HasCorruptLine == \E i \in 1..Len(Lines(contents)) : CorruptLine(Lines(contents)[i])

LongLines == SelectSeq(Lines(contents), LAMBDA l : Len(FieldsOf(l)) >= 5)

\* C3: when some line of the stored file has 5 fields and a price, quantity
\* or date that does not parse, read_from_file aborts wherever the line is:
\* no purchase is returned, no bucket is built, no bucket line is printed.
C3_CorruptAborts ==
    (fileExists /\ HasCorruptLine /\ pc # "read") =>
        /\ pc = "panic_read"
        /\ purchases = <<>>
        /\ buckets = <<>>
        /\ stdout = <<>>

C3_Witness ==
    /\ pc = "panic_read"
    /\ Len(Lines(contents)) = 3
    /\ DecodeLine(Lines(contents)[1]).kind = "ok"
    /\ DecodeLine(Lines(contents)[2]).kind = "ok"
    /\ CorruptLine(Lines(contents)[3])

\* C4: lines with fewer than 5 fields never make read_from_file fail, and
\* when it returns, the result is the decoded lines of 5 or more fields, in
\* file order: its length is the number of such lines.
C4_ShortLinesSkipped ==
    /\ pc = "panic_read" => (~fileExists \/ HasCorruptLine)
    /\ pc \in {"loaded", "bucketed", "reported", "panic_sort"} =>
        /\ Len(purchases) = Len(LongLines)
        /\ \A i \in 1..Len(LongLines) :
              /\ DecodeLine(LongLines[i]).kind = "ok"
              /\ purchases[i] = DecodeLine(LongLines[i]).purchase

C4_Witness ==
    /\ pc = "loaded"
    /\ Len(Lines(contents)) = 3
    /\ Len(FieldsOf(Lines(contents)[1])) >= 5
    /\ Len(FieldsOf(Lines(contents)[2])) < 5
    /\ Len(FieldsOf(Lines(contents)[3])) >= 5
    /\ Len(purchases) = 2

TypeIndex(t) == CHOOSE k \in 1..Len(ProductTypes) : ProductTypes[k] = t
BucketValue(k) == eval_bucket_value(buckets[k], purchases)

\* C5: the report prints the 8 buckets by descending value, and buckets of
\* equal value in declaration order of their types.
C5_ReportOrder ==
    pc = "reported" =>
        /\ Len(buckets) = Len(ProductTypes)
        /\ Len(stdout) = Len(ProductTypes)
        /\ \A k \in 1..Len(buckets) :
              stdout[k] = to_string(buckets[k].product_type) \o <<":", " ">>
                          \o FmtF32(BucketValue(k))
        /\ \A k, l \in 1..Len(buckets) :
              k < l =>
                \/ BucketValue(k).halves > BucketValue(l).halves
                \/ /\ BucketValue(k).halves = BucketValue(l).halves
                   /\ TypeIndex(buckets[k].product_type) < TypeIndex(buckets[l].product_type)

C5_Witness ==
    /\ pc = "reported"
    /\ buckets[1].product_type = "Other"
    /\ buckets[2].product_type = "Food"
    /\ buckets[3].product_type = "Culture"
    /\ BucketValue(2) = BucketValue(3)
    /\ BucketValue(2).halves > 0

\* C6: the buckets partition the loaded purchases: each purchase is in
\* exactly one place of exactly one bucket, the bucket of its own product
\* type, and the bucket sizes add up to the number of purchases.
RECURSIVE SumSizes(_)
SumSizes(bs) == IF bs = <<>> THEN 0 ELSE Len(Head(bs).purchases) + SumSizes(Tail(bs))

PlacesOf(i) ==
    { <<k, j>> \in (1..Len(buckets)) \X (1..Len(purchases)) :
        j <= Len(buckets[k].purchases) /\ buckets[k].purchases[j] = i }

C6_Partition ==
    pc \in {"bucketed", "reported", "panic_sort"} =>
        /\ Len(buckets) = Len(ProductTypes)
        /\ \A k \in 1..Len(ProductTypes) : \E l \in 1..Len(buckets) :
              buckets[l].product_type = ProductTypes[k]
        /\ SumSizes(buckets) = Len(purchases)
        /\ \A i \in 1..Len(purchases) :
              /\ Cardinality(PlacesOf(i)) = 1
              /\ \A pl \in PlacesOf(i) :
                    buckets[pl[1]].product_type = purchases[i].product.product_type

C6_Witness ==
    /\ pc = "bucketed"
    /\ Len(purchases) = 3
    /\ Len(buckets[1].purchases) = 2
    /\ Len(buckets[7].purchases) = 1

FailedAtPrice == pc = "price" /\ ParseF32(Trim(line')) = None
FailedAtQuantity == pc = "quantity" /\ ParseU32(Trim(line')) = None
FailedAtDate == pc = "date" /\ ParseDateFmt(line') = None

ErrorMessage ==
    IF pc = "price" THEN "Price must be a float"
    ELSE IF pc = "quantity" THEN "Quantity must be an integer"
    ELSE "Date must be in the format yyyy-mm-dd"

\* C7: a line that fails to parse at the price, quantity or date prompt
\* prints the error message and prompts for the same field again; the session
\* does not end, no later field is reached, the store is not written and the
\* fields accepted so far keep their values.
C7_RetrySameField ==
    [][ (FailedAtPrice \/ FailedAtQuantity \/ FailedAtDate) =>
            /\ pc' = pc
            /\ stdout' # <<>> /\ stdout'[1] = ErrorMessage
            /\ UNCHANGED <<fileExists, contents, written, name, price, product_type,
                           quantity, date, purchase>> ]_vars

C7_Witness ==
    /\ pc = "quantity"
    /\ stdout = <<"Quantity must be an integer", "Enter quantity:">>
    /\ name # None /\ price # None /\ product_type # None
    /\ quantity = None

\* C9: at the date prompt, a line ended by "\n" whose text is a valid
\* YYYY-MM-DD date is accepted: the date loop ends with that date and the
\* iteration goes on to build and persist the purchase.
C9_DateAccepted ==
    [][ ( /\ pc = "date"
          /\ line' # <<>>
          /\ line'[Len(line')] = "\n"
          /\ ParseDateFmt(SubSeq(line', 1, Len(line') - 1)) # None )
        => ( /\ pc' = "write"
             /\ date' = ParseDateFmt(SubSeq(line', 1, Len(line') - 1)) ) ]_vars

Normalized(n) == Trim(n) = n /\ ToLowercase(n) = n

\* C10: every Product, built by the input loop or decoded from a stored line,
\* has a name that is trimmed and lower-cased.
C10_NamesNormalized ==
    /\ purchase # None => Normalized(purchase[1].product.name)
    /\ \A i \in 1..Len(purchases) : Normalized(purchases[i].product.name)

====
